---- MODULE Spec2Model ----
(***************************************************************************)
(* A model of twat-text: the build-script driver (scripts/build.py) with   *)
(* its BuildManager stages, and the library stub                           *)
(* (src/twat_text/twat_text.py).                                           *)
(*                                                                         *)
(* Strings that the code inspects character by character (the version      *)
(* argument of the tag command) are sequences of one-character strings.    *)
(* An optional value (Python's None) is a set with at most one element.    *)
(***************************************************************************)
EXTENDS Integers, Sequences, FiniteSets, TLC

VARIABLES
    args,       \* build.py: the parsed command line (argparse namespace)
    pc,         \* build.py: position of main()
    reqs,       \* build.py: the call of check_requirements, once made
    opts,       \* build.py: the parameters of run_full_pipeline
    calls,      \* build.py: the stage calls made so far, in order
    out,        \* build.py: what main and run_full_pipeline logged themselves
    success,    \* build.py: main's `success`, the selected command's result
    exitCode,   \* build.py: the process's exit status, once exited
    loggerLevel, \* twat_text.py: the level of the module's logger
    frame,      \* twat_text.py: the call of process_data in progress, if any
    outcome,    \* twat_text.py: the call of process_data that just ended, if any
    sysArgv,    \* twat_text.py: the command line main is run with
    mainPc,     \* twat_text.py: where main is
    returned    \* twat_text.py: main's return value (or SystemExit code), if any

buildVars == <<args, pc, reqs, opts, calls, out, success, exitCode>>
entryVars == <<sysArgv, mainPc, returned>>
stubVars == <<loggerLevel, frame, outcome, entryVars>>
vars == <<buildVars, stubVars>>

(***************************************************************************)
(* Values.                                                                 *)
(***************************************************************************)
None == {}
Some(x) == {x}
TheValue(o) == CHOOSE x \in o : TRUE

\* The result of a call: it returned True, it returned False, or it raised.
RetTrue == "True"
RetFalse == "False"
Raised == "raise"
Unset == "unset"

\* The outcome of one external operation: it succeeded, it failed the way the
\* code handles (CalledProcessError), or it raised an OSError the code does
\* not catch (a missing executable, a filesystem error).
Ok == "ok"
Fail == "fail"
OSError == "oserror"

\* One external operation the code performed, with the argument the model
\* keeps of it (the tag name of a git tag operation) and its outcome.
CmdArg(c, a, o) == [cmd |-> c, arg |-> a, returncode |-> o]
Cmd(c, o) == CmdArg(c, <<>>, o)
\* An operation whose output the code reads: what `git tag -l` printed (the set
\* of its lines), what the user typed at input().
CmdOut(c, a, o, t) == [cmd |-> c, arg |-> a, returncode |-> o, stdout |-> t]
Log(l, m) == [level |-> l, msg |-> m]
Call(f, r, c, l) == [fn |-> f, ret |-> r, cmds |-> c, logs |-> l]

NoExit == -1

(***************************************************************************)
(* BuildManager.check_requirements                                         *)
(***************************************************************************)
CheckRequirementsEnv == [dot_git : BOOLEAN, uv : {Ok, Fail, OSError}]

check_requirements(e) ==
    IF ~e.dot_git
    THEN Call("check_requirements", RetFalse, <<>>,
              <<Log("error", "Not in a git repository")>>)
    ELSE IF e.uv # Ok
    THEN Call("check_requirements", RetFalse, <<Cmd("uv --version", e.uv)>>,
              <<Log("error", "uv is not installed")>>)
    ELSE Call("check_requirements", RetTrue, <<Cmd("uv --version", Ok)>>,
              <<Log("success", "Requirements check passed")>>)

(***************************************************************************)
(* BuildManager.clean_build: the removals are not guarded, so a filesystem *)
(* error leaves the function as an exception.                              *)
(***************************************************************************)
CleanBuildEnv == [fs : {Ok, OSError}]

clean_build(e) ==
    IF e.fs # Ok
    THEN Call("clean_build", Raised, <<Cmd("rmtree", OSError)>>, <<>>)
    ELSE Call("clean_build", RetTrue, <<Cmd("rmtree", Ok)>>,
              <<Log("success", "Build artifacts cleaned")>>)

(***************************************************************************)
(* BuildManager.run_linting                                                *)
(***************************************************************************)
RunLintingEnv == [ruff : BOOLEAN, format : BOOLEAN, mypy : BOOLEAN]

RunCommand(name, ok) == Cmd(name, IF ok THEN Ok ELSE Fail)

\* run_linting as it would be if it ran every tool and failed at the end.
run_linting_RunsEveryTool(e) ==
    LET c3 == <<RunCommand("ruff check", e.ruff),
                RunCommand("ruff format --check", e.format),
                RunCommand("mypy", e.mypy)>>
    IN  IF ~e.ruff
        THEN Call("run_linting", RetFalse, c3, <<Log("error", "Ruff lint failed")>>)
        ELSE IF ~e.format
        THEN Call("run_linting", RetFalse, c3,
                  <<Log("success", "Ruff lint passed"),
                    Log("error", "Ruff format check failed")>>)
        ELSE IF ~e.mypy
        THEN Call("run_linting", RetFalse, c3,
                  <<Log("success", "Ruff lint passed"),
                    Log("success", "Ruff format check passed"),
                    Log("error", "MyPy type checking failed")>>)
        ELSE Call("run_linting", RetTrue, c3,
                  <<Log("success", "Ruff lint passed"),
                    Log("success", "Ruff format check passed"),
                    Log("success", "MyPy type checking passed")>>)

run_linting(e) ==
    LET c1 == <<RunCommand("ruff check", e.ruff)>>
        c2 == Append(c1, RunCommand("ruff format --check", e.format))
        c3 == Append(c2, RunCommand("mypy", e.mypy))
    IN  IF ~e.ruff
        THEN Call("run_linting", RetFalse, c1, <<Log("error", "Ruff lint failed")>>)
        ELSE IF ~e.format
        THEN Call("run_linting", RetFalse, c2,
                  <<Log("success", "Ruff lint passed"),
                    Log("error", "Ruff format check failed")>>)
        ELSE IF ~e.mypy
        THEN Call("run_linting", RetFalse, c3,
                  <<Log("success", "Ruff lint passed"),
                    Log("success", "Ruff format check passed"),
                    Log("error", "MyPy type checking failed")>>)
        ELSE Call("run_linting", RetTrue, c3,
                  <<Log("success", "Ruff lint passed"),
                    Log("success", "Ruff format check passed"),
                    Log("success", "MyPy type checking passed")>>)

(***************************************************************************)
(* BuildManager.run_tests                                                  *)
(***************************************************************************)
RunTestsEnv == [install : BOOLEAN, pytest : BOOLEAN, benchmark : BOOLEAN]

\* run_tests as it would be if a benchmark failure failed the stage.
run_tests_BenchmarkFatal(e) ==
    LET c1 == <<RunCommand("pip install .[test]", e.install)>>
        c2 == Append(c1, RunCommand("pytest --cov", e.pytest))
        c3 == Append(c2, RunCommand("pytest --benchmark-only", e.benchmark))
    IN  IF ~e.install
        THEN Call("run_tests", RetFalse, c1,
                  <<Log("error", "Failed to install test dependencies")>>)
        ELSE IF ~e.pytest
        THEN Call("run_tests", RetFalse, c2, <<Log("error", "Tests failed")>>)
        ELSE IF ~e.benchmark
        THEN Call("run_tests", RetFalse, c3,
                  <<Log("success", "Tests passed"),
                    Log("error", "Benchmark tests failed")>>)
        ELSE Call("run_tests", RetTrue, c3,
                  <<Log("success", "Tests passed"),
                    Log("success", "Benchmark tests completed")>>)

run_tests(e) ==
    LET c1 == <<RunCommand("pip install .[test]", e.install)>>
        c2 == Append(c1, RunCommand("pytest --cov", e.pytest))
        c3 == Append(c2, RunCommand("pytest --benchmark-only", e.benchmark))
    IN  IF ~e.install
        THEN Call("run_tests", RetFalse, c1,
                  <<Log("error", "Failed to install test dependencies")>>)
        ELSE IF ~e.pytest
        THEN Call("run_tests", RetFalse, c2, <<Log("error", "Tests failed")>>)
        ELSE Call("run_tests", RetTrue, c3,
                  <<Log("success", "Tests passed"),
                    IF e.benchmark
                    THEN Log("success", "Benchmark tests completed")
                    ELSE Log("warning", "Benchmark tests failed or not available")>>)

(***************************************************************************)
(* BuildManager.build_package                                              *)
(***************************************************************************)
\* The most files of one kind that dist holds after the build.
MaxArtifacts == 2

\* wheel, sdist: how many files of dist match *.whl and *.tar.gz once the
\* packager has run.
BuildPackageEnv ==
    [install : BOOLEAN, mkdir : {Ok, OSError}, build : BOOLEAN,
     wheel : 0..MaxArtifacts, sdist : 0..MaxArtifacts]

\* build_package as it would be if it verified the wheel only.
build_package_WheelOnly(e) ==
    LET c1 == <<RunCommand("pip install build", e.install)>>
        c2 == Append(c1, Cmd("mkdir dist", e.mkdir))
        c3 == Append(c2, RunCommand("python -m build", e.build))
        c5 == c3 \o <<CmdOut("glob *.whl", <<>>, Ok, e.wheel),
                      CmdOut("glob *.tar.gz", <<>>, Ok, e.sdist)>>
    IN  IF ~e.install
        THEN Call("build_package", RetFalse, c1,
                  <<Log("error", "Failed to install build dependencies")>>)
        ELSE IF e.mkdir # Ok
        THEN Call("build_package", Raised, c2, <<>>)
        ELSE IF ~e.build
        THEN Call("build_package", RetFalse, c3,
                  <<Log("error", "Package build failed")>>)
        ELSE IF e.wheel # 0
        THEN Call("build_package", RetTrue, c5,
                  <<Log("success", "Package built successfully"),
                    Log("success", "Both wheel and source distributions created")>>)
        ELSE Call("build_package", RetFalse, c5,
                  <<Log("success", "Package built successfully"),
                    Log("error", "Missing distribution files")>>)

\* Lines 193-229.  A list is true when it is not empty.
build_package(e) ==
    LET c1 == <<RunCommand("pip install build", e.install)>>
        c2 == Append(c1, Cmd("mkdir dist", e.mkdir))
        c3 == Append(c2, RunCommand("python -m build", e.build))
        c5 == c3 \o <<CmdOut("glob *.whl", <<>>, Ok, e.wheel),
                      CmdOut("glob *.tar.gz", <<>>, Ok, e.sdist)>>
    IN  IF ~e.install
        THEN Call("build_package", RetFalse, c1,
                  <<Log("error", "Failed to install build dependencies")>>)
        ELSE IF e.mkdir # Ok
        THEN Call("build_package", Raised, c2, <<>>)
        ELSE IF ~e.build
        THEN Call("build_package", RetFalse, c3,
                  <<Log("error", "Package build failed")>>)
        ELSE IF e.wheel # 0 /\ e.sdist # 0
        THEN Call("build_package", RetTrue, c5,
                  <<Log("success", "Package built successfully"),
                    Log("success", "Both wheel and source distributions created")>>)
        ELSE Call("build_package", RetFalse, c5,
                  <<Log("success", "Package built successfully"),
                    Log("error", "Missing distribution files")>>)

(***************************************************************************)
(* BuildManager.check_version: only CalledProcessError is caught, so a     *)
(* missing git executable leaves the function as an exception.             *)
(***************************************************************************)
GitOutcome == {Ok, Fail, OSError}

CheckVersionEnv == [describe : GitOutcome, status : GitOutcome, dirty : BOOLEAN]

check_version(e) ==
    LET c1 == <<Cmd("git describe", e.describe)>>
        c2 == Append(c1, Cmd("git status", e.status))
        l1 == IF e.describe = Ok
              THEN <<Log("info", "Current version")>>
              ELSE <<Log("warning", "No git tags found")>>
    IN  IF e.describe = OSError
        THEN Call("check_version", Raised, c1, <<>>)
        ELSE IF e.status = OSError
        THEN Call("check_version", Raised, c2, l1)
        ELSE IF e.status = Fail
        THEN Call("check_version", RetFalse, c2,
                  Append(l1, Log("error", "Failed to check git status")))
        ELSE IF e.dirty
        THEN Call("check_version", RetTrue, c2,
                  Append(l1, Log("warning", "Working directory is dirty")))
        ELSE Call("check_version", RetTrue, c2,
                  Append(l1, Log("success", "Working directory is clean")))

(***************************************************************************)
(* The version pattern of create_release_tag,                              *)
(*     ^v?[0-9]+\.[0-9]+\.[0-9]+(-[a-zA-Z0-9]+)?$                          *)
(* matched as re.match matches it.  A position is an index into the        *)
(* string, 0 standing for "no match".  Without re.MULTILINE, $ matches at  *)
(* the end of the string and just before a newline that ends the string.   *)
(***************************************************************************)
Digit == {"0", "1", "2", "3", "4", "5", "6", "7", "8", "9"}
LowerCase ==
    {"a", "b", "c", "d", "e", "f", "g", "h", "i", "j", "k", "l", "m",
     "n", "o", "p", "q", "r", "s", "t", "u", "v", "w", "x", "y", "z"}
UpperCase ==
    {"A", "B", "C", "D", "E", "F", "G", "H", "I", "J", "K", "L", "M",
     "N", "O", "P", "Q", "R", "S", "T", "U", "V", "W", "X", "Y", "Z"}
Alnum == LowerCase \cup UpperCase \cup Digit

\* The end of the longest run of characters of Class that starts at i.
SkipWhile(s, i, Class) ==
    CHOOSE j \in i..(Len(s) + 1) :
        /\ \A k \in i..(j - 1) : s[k] \in Class
        /\ j = Len(s) + 1 \/ s[j] \notin Class

\* [Class]+ at i.
Plus(s, i, Class) ==
    IF i = 0 THEN 0
    ELSE LET j == SkipWhile(s, i, Class) IN IF j > i THEN j ELSE 0

\* The literal character c at i.
Lit(s, i, c) == IF i # 0 /\ i <= Len(s) /\ s[i] = c THEN i + 1 ELSE 0

\* v? at i.
OptionalV(s, i) == IF i <= Len(s) /\ s[i] = "v" THEN i + 1 ELSE i

\* $ at i.
EndAnchor(s, i) ==
    /\ i # 0
    /\ \/ i = Len(s) + 1
       \/ i = Len(s) /\ s[i] = "\n"

re_match_version(s) ==
    LET core == Plus(s, Lit(s, Plus(s, Lit(s, Plus(s, OptionalV(s, 1), Digit), "."),
                                    Digit), "."), Digit)
        group == Plus(s, Lit(s, core, "-"), Alnum)
    IN  \/ EndAnchor(s, group)
        \/ EndAnchor(s, core)

\* version.startswith('v')
StartsWithV(s) == Len(s) >= 1 /\ s[1] = "v"

\* Lines 280-281: the tag name of a version that passed the pattern.
NormalizeTag(version) == IF StartsWithV(version) THEN version ELSE <<"v">> \o version

(***************************************************************************)
(* input(...).strip().lower()                                              *)
(***************************************************************************)
Whitespace == {" ", "\t", "\n"}

RECURSIVE LStrip(_)
LStrip(s) == IF s # <<>> /\ Head(s) \in Whitespace THEN LStrip(Tail(s)) ELSE s

RECURSIVE RStrip(_)
RStrip(s) ==
    IF s # <<>> /\ s[Len(s)] \in Whitespace
    THEN RStrip(SubSeq(s, 1, Len(s) - 1)) ELSE s

Strip(s) == RStrip(LStrip(s))

LowerChar(c) ==
    CASE c = "Y" -> "y" [] c = "E" -> "e" [] c = "S" -> "s" [] c = "N" -> "n"
      [] OTHER -> c

Lower(s) == [i \in 1..Len(s) |-> LowerChar(s[i])]

(***************************************************************************)
(* BuildManager.create_release_tag                                         *)
(***************************************************************************)
\* What the user types at the prompt (None: end of input, input() raises).
Responses ==
    {<<"y">>, <<"y", "e", "s">>, <<" ", "Y", "E", "S", " ">>, <<"n">>,
     <<"y", "e">>, <<>>}

\* The tags `git tag -l` lists.
ExistingTagSets == {{}, {<<"v", "1", ".", "1", ".", "1">>}}

CreateReleaseTagEnv ==
    [list : GitOutcome, existing_tags : ExistingTagSets, create : GitOutcome,
     response : {None} \cup {Some(r) : r \in Responses}, push : GitOutcome]

create_release_tag(version, e) ==
    LET tag == NormalizeTag(version)
        c1 == <<IF e.list = Ok
                THEN CmdOut("git tag -l", tag, Ok, e.existing_tags)
                ELSE CmdArg("git tag -l", tag, e.list)>>
        c2 == Append(c1, CmdArg("git tag -a", tag, e.create))
        c3 == Append(c2, IF e.response = None
                         THEN CmdArg("input", tag, OSError)
                         ELSE CmdOut("input", tag, Ok, TheValue(e.response)))
        c4 == Append(c3, CmdArg("git push origin", tag, e.push))
        created == <<Log("success", "Created tag")>>
    IN  IF ~re_match_version(version)
        THEN Call("create_release_tag", RetFalse, <<>>,
                  <<Log("error", "Invalid version format")>>)
        ELSE IF e.list = OSError
        THEN Call("create_release_tag", Raised, c1, <<>>)
        ELSE IF e.list = Fail
        THEN Call("create_release_tag", RetFalse, c1,
                  <<Log("error", "Failed to list git tags")>>)
        ELSE IF tag \in e.existing_tags
        THEN Call("create_release_tag", RetFalse, c1,
                  <<Log("error", "Tag already exists")>>)
        ELSE IF e.create = OSError
        THEN Call("create_release_tag", Raised, c2, <<>>)
        ELSE IF e.create = Fail
        THEN Call("create_release_tag", RetFalse, c2,
                  <<Log("error", "Failed to create tag")>>)
        ELSE IF e.response = None
        THEN Call("create_release_tag", Raised, c3, created)
        ELSE IF Lower(Strip(TheValue(e.response))) \notin {<<"y">>, <<"y", "e", "s">>}
        THEN Call("create_release_tag", RetTrue, c3,
                  Append(created, Log("info", "Tag not pushed")))
        ELSE IF e.push = OSError
        THEN Call("create_release_tag", Raised, c4, created)
        ELSE IF e.push = Fail
        THEN Call("create_release_tag", RetFalse, c4,
                  Append(created, Log("error", "Failed to push tag to remote")))
        ELSE Call("create_release_tag", RetTrue, c4,
                  Append(created, Log("success", "Tag pushed to remote")))

(***************************************************************************)
(* twat_text.py: the module's logger and process_data.                     *)
(***************************************************************************)
\* logging.NOTSET, the level of a logger from logging.getLogger, and
\* logging.DEBUG.
NOTSET == 0
DEBUG == 10

\* The items of a data list, by type.
ItemKinds == {"str", "int", "float", "dict", "list", "NoneType"}

\* The longest data list.
MaxItems == 2

RECURSIVE SeqsUpTo(_, _)
SeqsUpTo(S, n) ==
    IF n = 0 THEN {<<>>}
    ELSE LET shorter == SeqsUpTo(S, n - 1)
         IN  shorter \cup {Append(q, x) : q \in shorter, x \in S}

DataInputs == SeqsUpTo(ItemKinds, MaxItems)

\* class Config: name, value, options (None by default).
Config(n, v, o) == [name |-> n, value |-> v, options |-> o]

ConfigInputs ==
    {None,
     Some(Config("test_config", "test_value", None)),
     Some(Config("default", "test", Some({<<"key", "value">>})))}

\* How a call of process_data ends: with a returned dict or a raised exception.
EmptyDict == {}
Return(d) == [kind |-> "return", dict |-> d, exc |-> "", text |-> ""]
Raise(x, t) == [kind |-> "raise", dict |-> EmptyDict, exc |-> x, text |-> t]

\* LevelOnEntry as it would be if the debug flag did not reach the logger.
LevelOnEntry_DebugIgnored(debug, level) == level

\* Lines 45-47: logger.setLevel(logging.DEBUG) under debug.
LevelOnEntry(debug, level) == IF debug THEN DEBUG ELSE level

\* ValidateAndProcess as it would be if only a call without config validated.
ValidateAndProcess_ConfigSkipsCheck(data, config) ==
    IF Len(data) = 0 /\ config = None
    THEN Raise("ValueError", "Input data cannot be empty")
    ELSE Return(EmptyDict)

\* ValidateAndProcess as it would be if a single item counted as no data.
ValidateAndProcess_NeedsTwoItems(data, config) ==
    IF Len(data) <= 1
    THEN Raise("ValueError", "Input data cannot be empty")
    ELSE Return(EmptyDict)

\* Lines 49-55.
ValidateAndProcess(data, config) ==
    IF Len(data) = 0
    THEN Raise("ValueError", "Input data cannot be empty")
    ELSE Return(EmptyDict)

Activation(d, c, g, b) == [debug |-> g, data |-> d, config |-> c, levelBefore |-> b]
Ended(a, r) == [call |-> a, result |-> r]

\* process_data is entered: its arguments are bound and the debug flag acts.
ProcessDataEnter ==
    /\ frame = None
    /\ \E d \in DataInputs, c \in ConfigInputs, g \in BOOLEAN :
          /\ frame' = Some(Activation(d, c, g, loggerLevel))
          /\ loggerLevel' = LevelOnEntry(g, loggerLevel)
    /\ outcome' = None
    /\ UNCHANGED <<buildVars, entryVars>>

\* process_data validates, processes and ends.
ProcessDataEnd ==
    /\ frame # None
    /\ LET a == TheValue(frame)
       IN  outcome' = Some(Ended(a, ValidateAndProcess(a.data, a.config)))
    /\ frame' = None
    /\ UNCHANGED <<buildVars, loggerLevel, entryVars>>

\* The module is imported, its logger is as logging.getLogger made it, and
\* neither process_data nor main is running.
LoggerFresh ==
    /\ loggerLevel = NOTSET
    /\ frame = None
    /\ outcome = None

\* No command line of twat-text.
NoStubArgv ==
    [debug |-> FALSE, data |-> <<>>, config |-> None, extra |-> "", patched |-> None]

StubIdle ==
    /\ LoggerFresh
    /\ sysArgv = NoStubArgv
    /\ mainPc = "idle"
    /\ returned = None

(***************************************************************************)
(* twat_text.py: main, the command-line entry point.                       *)
(***************************************************************************)
\* The characters of a --config argument: a letter, the separator, a blank.
ConfigChars == {"n", "=", " "}

\* The longest --config argument.
MaxConfigLen == 3

\* --config: absent, or a string (the empty one included).
ConfigArgs ==
    {None} \cup
        {Some(c) : c \in UNION {[1..n -> ConfigChars] : n \in 0..MaxConfigLen}}

\* The positional data arguments.
DataWords == {"data1", "data2"}
DataArgs == SeqsUpTo(DataWords, MaxItems)

\* One more option on the command line: none, --version, or an option the
\* parser does not know.
ExtraOptions == {"", "--version", "--bogus"}

\* tests/test_twat_text.py: process_data as it is, or patched with a mock
\* whose side effect is an exception.
Patches == {None, Some("ValueError"), Some("Exception")}

StubArgvSpace ==
    [debug : BOOLEAN, data : DataArgs, config : ConfigArgs,
     extra : ExtraOptions, patched : Patches]

\* The built-in defaults of lines 115 and 118.
DefaultConfig ==
    Config(<<"d", "e", "f", "a", "u", "l", "t">>, <<"t", "e", "s", "t">>,
           Some({<<"key", "value">>}))
DefaultData == <<"default", "data">>

\* s.find(c) + 1: the position of the first c in s, 0 when there is none.
IndexOf(s, c) ==
    IF \E i \in 1..Len(s) : s[i] = c
    THEN CHOOSE i \in 1..Len(s) : s[i] = c /\ \A j \in 1..(i - 1) : s[j] # c
    ELSE 0

\* s.split("=", 1)
SplitOnce(s) ==
    LET i == IndexOf(s, "=")
    IN  IF i = 0 THEN <<s>>
        ELSE <<SubSeq(s, 1, i - 1), SubSeq(s, i + 1, Len(s))>>

\* Lines 106-115: the config main passes on, None when the unpacking of the
\* split raises ValueError.  `if args.config:` is false of None and of "".
ConfigOfArgs(c) ==
    IF c = None \/ TheValue(c) = <<>>
    THEN Some(DefaultConfig)
    ELSE LET parts == SplitOnce(TheValue(c))
         IN  IF Len(parts) # 2 THEN None
             ELSE Some(Config(Strip(parts[1]), Strip(parts[2]), None))

\* Line 118: args.data if args.data else ["default", "data"]
DataOfArgs(d) == IF d = <<>> THEN DefaultData ELSE d

\* Lines 98-119: parse_args (which raises SystemExit on --version and on a
\* usage error; SystemExit is no Exception and leaves main), the debug flag,
\* the config, the data, and the call of process_data.
MainParseArgs ==
    /\ mainPc = "start"
    /\ IF sysArgv.extra # ""
       THEN /\ mainPc' = "exited"
            /\ returned' = Some(IF sysArgv.extra = "--version" THEN 0 ELSE 2)
            /\ UNCHANGED <<loggerLevel, frame, outcome>>
       ELSE LET level == IF sysArgv.debug THEN DEBUG ELSE loggerLevel
                config == ConfigOfArgs(sysArgv.config)
            IN  IF config = None
                THEN /\ mainPc' = "returned"
                     /\ returned' = Some(1)
                     /\ loggerLevel' = level
                     /\ UNCHANGED <<frame, outcome>>
                ELSE /\ mainPc' = "process_data"
                     /\ frame' = Some(Activation(DataOfArgs(sysArgv.data), config,
                                                 sysArgv.debug, level))
                     /\ loggerLevel' = level
                     /\ UNCHANGED <<returned, outcome>>
    /\ UNCHANGED <<buildVars, sysArgv>>

\* Line 119: process_data runs (or the mock that replaces it raises).
MainProcessData ==
    /\ mainPc = "process_data"
    /\ LET a == TheValue(frame)
       IN  IF sysArgv.patched = None
           THEN /\ loggerLevel' = LevelOnEntry(a.debug, loggerLevel)
                /\ outcome' = Some(Ended(a, ValidateAndProcess(a.data, a.config)))
           ELSE /\ outcome' =
                       Some(Ended(a, Raise(TheValue(sysArgv.patched), "Test exception")))
                /\ UNCHANGED loggerLevel
    /\ frame' = None
    /\ mainPc' = "mapping"
    /\ UNCHANGED <<buildVars, sysArgv, returned>>

\* Lines 121-129: return 0, or the except clauses: ValueError and every
\* other Exception are mapped to 1.
MainReturn ==
    /\ mainPc = "mapping"
    /\ LET r == TheValue(outcome).result
       IN  returned' = IF r.kind = "return" THEN Some(0)
                       ELSE IF r.exc = "ValueError" THEN Some(1)
                       ELSE Some(1)
    /\ mainPc' = "returned"
    /\ UNCHANGED <<buildVars, sysArgv, loggerLevel, frame, outcome>>

(***************************************************************************)
(* main of scripts/build.py: the command line.                             *)
(***************************************************************************)
Choices == {"test", "lint", "build", "clean", "version", "tag", "all"}

\* The commands a user may type: the choices and one that is none of them.
CommandWords == Choices \cup {"deploy"}

\* The version arguments the driver is run with: absent, empty, new, already
\* tagged, malformed.
DriverVersions ==
    {None, Some(<<>>), Some(<<"1", ".", "2", ".", "3">>),
     Some(<<"v", "1", ".", "1", ".", "1">>), Some(<<"1", ".", "2">>)}

ArgSpace ==
    [version : DriverVersions, command : CommandWords, no_clean : BOOLEAN,
     no_lint : BOOLEAN, no_test : BOOLEAN, no_build : BOOLEAN, release : BOOLEAN]

\* The defaults of run_full_pipeline's parameters.
DefaultOpts ==
    [skip_clean |-> FALSE, skip_lint |-> FALSE, skip_test |-> FALSE,
     skip_build |-> FALSE, release_mode |-> FALSE]

Init ==
    /\ args \in ArgSpace
    /\ pc = "parse_args"
    /\ reqs = None
    /\ opts = DefaultOpts
    /\ calls = <<>>
    /\ out = <<>>
    /\ success = Unset
    /\ exitCode = NoExit
    /\ StubIdle

\* sys.exit(code), also what parser.error and an uncaught exception end in.
Exit(code) ==
    /\ pc' = "exited"
    /\ exitCode' = code

\* Lines 430-434: argparse refuses a command that is none of the choices, and
\* main refuses a tag command without a (non-empty) version; parser.error
\* exits with status 2.
ParseArgs ==
    /\ pc = "parse_args"
    /\ IF \/ args.command \notin Choices
          \/ args.command = "tag" /\ (args.version = None \/ args.version = Some(<<>>))
       THEN Exit(2)
       ELSE pc' = "check_requirements" /\ UNCHANGED exitCode
    /\ UNCHANGED <<stubVars, args, reqs, opts, calls, out, success>>

\* Lines 439-444.
CheckRequirements ==
    /\ pc = "check_requirements"
    /\ \E e \in CheckRequirementsEnv :
         LET r == check_requirements(e)
         IN  /\ reqs' = Some(r)
             /\ IF r.ret # RetTrue
                THEN Exit(1) /\ UNCHANGED success
                ELSE pc' = "execute" /\ success' = RetFalse /\ UNCHANGED exitCode
    /\ UNCHANGED <<stubVars, args, opts, calls, out>>

\* success = build_manager.<stage>(): the stage is called and main goes on to
\* its last statement, unless the stage raised.
RunCommandOfMain(call) ==
    /\ calls' = Append(calls, call)
    /\ IF call.ret = Raised
       THEN Exit(1) /\ UNCHANGED success
       ELSE pc' = "main_exit" /\ success' = call.ret /\ UNCHANGED exitCode
    /\ UNCHANGED <<stubVars, args, reqs, opts, out>>

CmdClean ==
    /\ pc = "execute" /\ args.command = "clean"
    /\ \E e \in CleanBuildEnv : RunCommandOfMain(clean_build(e))

CmdLint ==
    /\ pc = "execute" /\ args.command = "lint"
    /\ \E e \in RunLintingEnv : RunCommandOfMain(run_linting(e))

CmdTest ==
    /\ pc = "execute" /\ args.command = "test"
    /\ \E e \in RunTestsEnv : RunCommandOfMain(run_tests(e))

CmdBuild ==
    /\ pc = "execute" /\ args.command = "build"
    /\ \E e \in BuildPackageEnv : RunCommandOfMain(build_package(e))

CmdVersion ==
    /\ pc = "execute" /\ args.command = "version"
    /\ \E e \in CheckVersionEnv : RunCommandOfMain(check_version(e))

\* git and the user are consulted only for a version that passes the pattern.
CmdTag ==
    /\ pc = "execute" /\ args.command = "tag"
    /\ \E e \in IF re_match_version(TheValue(args.version))
                THEN CreateReleaseTagEnv
                ELSE {CHOOSE x \in CreateReleaseTagEnv : TRUE} :
         RunCommandOfMain(create_release_tag(TheValue(args.version), e))

\* CmdAll as it would be if --no-lint were not passed on.
CmdAll_NoLintDropped ==
    /\ pc = "execute" /\ args.command = "all"
    /\ opts' = [skip_clean |-> args.no_clean, skip_lint |-> FALSE,
                skip_test |-> args.no_test, skip_build |-> args.no_build,
                release_mode |-> args.release]
    /\ out' = Append(out, Log("info", "Running full build pipeline..."))
    /\ pc' = "pipeline_clean"
    /\ UNCHANGED <<stubVars, args, reqs, calls, success, exitCode>>

\* Lines 458-465: the call of run_full_pipeline with the flags of the command
\* line, and line 334.
CmdAll ==
    /\ pc = "execute" /\ args.command = "all"
    /\ opts' = [skip_clean |-> args.no_clean, skip_lint |-> args.no_lint,
                skip_test |-> args.no_test, skip_build |-> args.no_build,
                release_mode |-> args.release]
    /\ out' = Append(out, Log("info", "Running full build pipeline..."))
    /\ pc' = "pipeline_clean"
    /\ UNCHANGED <<stubVars, args, reqs, calls, success, exitCode>>

(***************************************************************************)
(* BuildManager.run_full_pipeline, one step per stage.                     *)
(***************************************************************************)
\* PipelineStage as it would be if a stage's False did not end the pipeline.
PipelineStage_NoFailFast(here, skip, call, next) ==
    /\ pc = here
    /\ IF skip
       THEN pc' = next /\ UNCHANGED <<calls, success, exitCode>>
       ELSE /\ calls' = Append(calls, call)
            /\ IF call.ret = Raised
               THEN Exit(1) /\ UNCHANGED success
               ELSE pc' = next /\ UNCHANGED <<success, exitCode>>
    /\ UNCHANGED <<stubVars, args, reqs, opts, out>>

\* if not skip: if not self.<stage>(): return False
\* A stage that raises ends run_full_pipeline and main with it.
PipelineStage(here, skip, call, next) ==
    /\ pc = here
    /\ IF skip
       THEN pc' = next /\ UNCHANGED <<calls, success, exitCode>>
       ELSE /\ calls' = Append(calls, call)
            /\ IF call.ret = Raised
               THEN Exit(1) /\ UNCHANGED success
               ELSE IF call.ret = RetFalse
               THEN pc' = "main_exit" /\ success' = RetFalse /\ UNCHANGED exitCode
               ELSE pc' = next /\ UNCHANGED <<success, exitCode>>
    /\ UNCHANGED <<stubVars, args, reqs, opts, out>>

PipelineClean ==
    \E e \in CleanBuildEnv :
        PipelineStage("pipeline_clean", opts.skip_clean, clean_build(e),
                      "pipeline_version")

PipelineVersion ==
    \E e \in CheckVersionEnv :
        PipelineStage("pipeline_version", FALSE, check_version(e), "pipeline_lint")

PipelineLint ==
    \E e \in RunLintingEnv :
        PipelineStage("pipeline_lint", opts.skip_lint, run_linting(e), "pipeline_test")

\* PipelineTest as it would be if skip_test were not consulted.
PipelineTest_IgnoresSkip ==
    \E e \in RunTestsEnv :
        PipelineStage("pipeline_test", FALSE, run_tests(e), "pipeline_build")

PipelineTest ==
    \E e \in RunTestsEnv :
        PipelineStage("pipeline_test", opts.skip_test, run_tests(e), "pipeline_build")

\* PipelineBuild as it would be if the result of build_package were dropped.
PipelineBuild_ResultDropped ==
    \E e \in BuildPackageEnv :
        LET call == build_package(e)
        IN  /\ pc = "pipeline_build"
            /\ IF opts.skip_build
               THEN UNCHANGED calls
               ELSE calls' = Append(calls, call)
            /\ IF ~opts.skip_build /\ call.ret = Raised
               THEN Exit(1)
               ELSE pc' = "pipeline_done" /\ UNCHANGED exitCode
            /\ UNCHANGED <<stubVars, args, reqs, opts, out, success>>

PipelineBuild ==
    \E e \in BuildPackageEnv :
        PipelineStage("pipeline_build", opts.skip_build, build_package(e),
                      "pipeline_done")

\* Lines 360-366.
PipelineDone ==
    /\ pc = "pipeline_done"
    /\ out' = out \o <<Log("success", "Full build pipeline completed successfully!")>>
                  \o (IF opts.release_mode
                      THEN <<Log("info", "Release mode: Package is ready for release")>>
                      ELSE <<>>)
    /\ success' = RetTrue
    /\ pc' = "main_exit"
    /\ UNCHANGED <<stubVars, args, reqs, opts, calls, exitCode>>

\* MainExit as it would be if the result were not turned into a status.
MainExit_AlwaysZero ==
    /\ pc = "main_exit"
    /\ Exit(0)
    /\ UNCHANGED <<stubVars, args, reqs, opts, calls, out, success>>

\* Lines 467-468, and the end of main.
MainExit ==
    /\ pc = "main_exit"
    /\ Exit(IF success # RetTrue THEN 1 ELSE 0)
    /\ UNCHANGED <<stubVars, args, reqs, opts, calls, out, success>>

Next ==
    \/ ParseArgs
    \/ CheckRequirements
    \/ CmdClean
    \/ CmdLint
    \/ CmdTest
    \/ CmdBuild
    \/ CmdVersion
    \/ CmdTag
    \/ CmdAll
    \/ PipelineClean
    \/ PipelineVersion
    \/ PipelineLint
    \/ PipelineTest
    \/ PipelineBuild
    \/ PipelineDone
    \/ MainExit

Spec == Init /\ [][Next]_vars

(***************************************************************************)
(* The tag command of build.py on every version string: the driver at the  *)
(* point where, the requirements met, it calls create_release_tag.         *)
(***************************************************************************)
\* The characters of a version argument: the optional prefix, a digit, the
\* separators, a letter that is not the prefix, and a newline.
VersionChars == {"v", "1", ".", "-", "a", "\n"}

\* The longest version argument.
MaxVersionLen == 7

VersionInputs == UNION {[1..n -> VersionChars] : n \in 1..MaxVersionLen}

InitTag ==
    /\ \E v \in VersionInputs :
          args = [version |-> Some(v), command |-> "tag", no_clean |-> FALSE,
                  no_lint |-> FALSE, no_test |-> FALSE, no_build |-> FALSE,
                  release |-> FALSE]
    /\ pc = "execute"
    /\ reqs = Some(check_requirements([dot_git |-> TRUE, uv |-> Ok]))
    /\ opts = DefaultOpts
    /\ calls = <<>>
    /\ out = <<>>
    /\ success = RetFalse
    /\ exitCode = NoExit
    /\ StubIdle

NextTag ==
    \/ CmdTag
    \/ MainExit

SpecTag == InitTag /\ [][NextTag]_vars

(***************************************************************************)
(* A process that imports twat_text and calls process_data, again and      *)
(* again.                                                                  *)
(***************************************************************************)
\* No command line of build.py.
NoArgs ==
    [version |-> None, command |-> "all", no_clean |-> FALSE, no_lint |-> FALSE,
     no_test |-> FALSE, no_build |-> FALSE, release |-> FALSE]

BuildIdle ==
    /\ args = NoArgs
    /\ pc = "parse_args"
    /\ reqs = None
    /\ opts = DefaultOpts
    /\ calls = <<>>
    /\ out = <<>>
    /\ success = Unset
    /\ exitCode = NoExit

InitStub == BuildIdle /\ StubIdle

NextStub ==
    \/ ProcessDataEnter
    \/ ProcessDataEnd

SpecStub == InitStub /\ [][NextStub]_vars

(***************************************************************************)
(* One run of twat-text's main, on every command line.                     *)
(***************************************************************************)
InitMain ==
    /\ BuildIdle
    /\ LoggerFresh
    /\ sysArgv \in StubArgvSpace
    /\ mainPc = "start"
    /\ returned = None

NextMain ==
    \/ MainParseArgs
    \/ MainProcessData
    \/ MainReturn

SpecMain == InitMain /\ [][NextMain]_vars

(***************************************************************************)
(* Properties of the build script.                                         *)
(***************************************************************************)
StageOrder ==
    <<"clean_build", "check_version", "run_linting", "run_tests", "build_package">>

Stages == {StageOrder[i] : i \in 1..Len(StageOrder)}

StageIndex(fn) == CHOOSE i \in 1..Len(StageOrder) : StageOrder[i] = fn

Fns(cs) == [i \in 1..Len(cs) |-> cs[i].fn]

\* The operations of one call that ran the command c.
Ran(call, c) == {k \in 1..Len(call.cmds) : call.cmds[k].cmd = c}

Invoked(fn) == \E i \in 1..Len(calls) : calls[i].fn = fn

TimesInvoked(fn) == Cardinality({i \in 1..Len(calls) : calls[i].fn = fn})

RequirementsMet == reqs # None /\ TheValue(reqs).ret = RetTrue

\* The selected command was called and has ended (returned or raised).
CommandEnded == RequirementsMet /\ pc \in {"main_exit", "exited"}

CommandRaised == CommandEnded /\ calls # <<>> /\ calls[Len(calls)].ret = Raised

\* The selected command returned, and `success` holds what it returned.
CommandReturned == CommandEnded /\ ~CommandRaised

InPipeline == args.command = "all"

\* The skip parameter of run_full_pipeline that guards a stage, if any.
SkipParameter(fn) ==
    CASE fn = "clean_build" -> opts.skip_clean
      [] fn = "check_version" -> FALSE
      [] fn = "run_linting" -> opts.skip_lint
      [] fn = "run_tests" -> opts.skip_test
      [] fn = "build_package" -> opts.skip_build

\* C1: run_full_pipeline invokes stages only in the order clean, version
\* check, lint, test, build (each at most once), and a stage that did not
\* return True is the last stage invoked: nothing runs after a failure.
C1_FailFastInOrder ==
    InPipeline =>
        /\ \A i \in 1..Len(calls) : calls[i].fn \in Stages
        /\ \A i, j \in 1..Len(calls) :
               i < j => StageIndex(calls[i].fn) < StageIndex(calls[j].fn)
        /\ \A i \in 1..Len(calls) : calls[i].ret # RetTrue => i = Len(calls)
        /\ (\E i \in 1..Len(calls) : calls[i].ret = RetFalse)
               => pc \in {"main_exit", "exited"} /\ success = RetFalse

\* C1 witness: every stage enabled, lint fails, and the pipeline has returned
\* with test and build never invoked.
C1_Witness ==
    /\ InPipeline /\ pc = "exited"
    /\ ~opts.skip_clean /\ ~opts.skip_lint /\ ~opts.skip_test /\ ~opts.skip_build
    /\ Fns(calls) = <<"clean_build", "check_version", "run_linting">>
    /\ calls[3].ret = RetFalse

\* C2: a stage whose skip flag is set is never invoked, and when the
\* pipeline ran to its end every stage whose flag is not set was invoked
\* exactly once.
C2_SkippedNeverInvoked ==
    InPipeline =>
        /\ \A i \in 1..Len(calls) : ~SkipParameter(calls[i].fn)
        /\ (CommandReturned /\ success = RetTrue) =>
               \A fn \in Stages :
                   TimesInvoked(fn) = IF SkipParameter(fn) THEN 0 ELSE 1

\* C2 witness: skip_test alone is set, every stage succeeds, and clean,
\* version check, lint and build have run.
C2_Witness ==
    /\ InPipeline /\ CommandReturned /\ success = RetTrue
    /\ opts.skip_test /\ ~opts.skip_clean /\ ~opts.skip_lint /\ ~opts.skip_build
    /\ Fns(calls) = <<"clean_build", "check_version", "run_linting", "build_package">>

\* The boolean flags of the command line.
FlagNames == {"no_clean", "no_lint", "no_test", "no_build", "release"}

\* The flag of the command line that skips a stage.
SkipFlagName(fn) ==
    CASE fn = "clean_build" -> "no_clean"
      [] fn = "run_linting" -> "no_lint"
      [] fn = "run_tests" -> "no_test"
      [] fn = "build_package" -> "no_build"

SkippableStages == Stages \ {"check_version"}

PipelineCompleted == InPipeline /\ CommandReturned /\ success = RetTrue

\* C3 as claimed: each of the five stages has a configuration flag that
\* skips it, so for every stage some flag, when set, keeps it from being
\* invoked.  The version check is invoked whatever the flags are.
C3_EveryStageHasSkipFlag ==
    InPipeline =>
        \A fn \in Stages : \E f \in FlagNames : args[f] => ~Invoked(fn)

\* C3 amended: clean, lint, test and build are each skippable by their flag
\* (a completed pipeline invoked exactly the ones whose flag is not set);
\* the version check has no flag and is invoked once in every pipeline that
\* got past clean.
C3_FourStagesSkippable ==
    /\ PipelineCompleted =>
           \A fn \in SkippableStages :
               TimesInvoked(fn) = IF args[SkipFlagName(fn)] THEN 0 ELSE 1
    /\ (InPipeline /\ (pc \in {"pipeline_lint", "pipeline_test", "pipeline_build",
                               "pipeline_done"} \/ PipelineCompleted))
           => TimesInvoked("check_version") = 1

\* C3 witness: all four skip flags are set, and the completed pipeline has
\* invoked the version check alone.
C3_Witness ==
    /\ PipelineCompleted
    /\ args.no_clean /\ args.no_lint /\ args.no_test /\ args.no_build
    /\ Fns(calls) = <<"check_version">>

\* C4: what run_full_pipeline returns is the conjunction of the results of
\* the stages it invoked.
C4_ResultIsConjunction ==
    (InPipeline /\ CommandReturned) =>
        /\ success \in {RetTrue, RetFalse}
        /\ success = RetTrue <=> \A i \in 1..Len(calls) : calls[i].ret = RetTrue

\* C4 witness: the pipeline returned False because its last invoked stage,
\* build, did, after four stages that returned True.
C4_Witness ==
    /\ InPipeline /\ CommandReturned /\ success = RetFalse
    /\ Len(calls) = 5 /\ calls[5].ret = RetFalse
    /\ \A i \in 1..4 : calls[i].ret = RetTrue

\* C5: run_tests returns True exactly when the install of the test
\* dependencies and the test suite both succeeded; the benchmark is run only
\* after the test suite passed, and its failure is logged as a warning and
\* leaves the result True.
C5_BenchmarkTolerated ==
    \A i \in 1..Len(calls) :
        calls[i].fn = "run_tests" =>
            LET c == calls[i].cmds
                okAt(k) == Len(c) >= k /\ c[k].returncode = Ok
            IN  /\ calls[i].ret \in {RetTrue, RetFalse}
                /\ Len(c) >= 1 /\ c[1].cmd = "pip install .[test]"
                /\ Len(c) >= 2 => c[2].cmd = "pytest --cov" /\ okAt(1)
                /\ calls[i].ret = RetTrue <=> (okAt(1) /\ okAt(2))
                /\ \A k \in 1..Len(c) :
                       c[k].cmd = "pytest --benchmark-only" => k = 3 /\ okAt(2)
                /\ (okAt(1) /\ okAt(2)) =>
                       Len(c) = 3 /\ c[3].cmd = "pytest --benchmark-only"
                /\ (Len(c) = 3 /\ c[3].returncode # Ok) =>
                       /\ calls[i].ret = RetTrue
                       /\ \E k \in 1..Len(calls[i].logs) :
                              calls[i].logs[k].level = "warning"
                       /\ \A k \in 1..Len(calls[i].logs) :
                              calls[i].logs[k].level # "error"

\* C5 witness: a run_tests whose benchmark run failed and which returned True.
C5_Witness ==
    \E i \in 1..Len(calls) :
        /\ calls[i].fn = "run_tests"
        /\ Len(calls[i].cmds) = 3
        /\ calls[i].cmds[3].returncode = Fail
        /\ calls[i].ret = RetTrue

\* What argparse and main refuse: a command that is none of the choices, and
\* a tag command without a version.
UsageError ==
    \/ args.command \notin Choices
    \/ args.command = "tag" /\ args.version \in {None, Some(<<>>)}

LintTools == <<"ruff check", "ruff format --check", "mypy">>
LintFailure ==
    <<"Ruff lint failed", "Ruff format check failed", "MyPy type checking failed">>

\* The errors a call logged.
ErrorsOf(call) ==
    {call.logs[k].msg : k \in {j \in 1..Len(call.logs) : call.logs[j].level = "error"}}

\* C14: run_linting invokes the linter, then the format-checker, then the
\* type-checker, each at most once; it stops at the first tool that fails,
\* reports which tool failed, and returns True exactly when all three
\* succeeded.
C14_LintFailsFast ==
    \A i \in 1..Len(calls) :
        calls[i].fn = "run_linting" =>
            LET c == calls[i].cmds
                n == Len(c)
            IN  /\ n \in 1..3
                /\ \A k \in 1..n : c[k].cmd = LintTools[k]
                /\ \A k \in 1..(n - 1) : c[k].returncode = Ok
                /\ n < 3 => c[n].returncode # Ok
                /\ c[n].returncode # Ok => ErrorsOf(calls[i]) = {LintFailure[n]}
                /\ c[n].returncode = Ok => ErrorsOf(calls[i]) = {}
                /\ calls[i].ret = RetTrue <=>
                       n = 3 /\ \A k \in 1..3 : c[k].returncode = Ok
                /\ calls[i].ret \in {RetTrue, RetFalse}

\* C14 witness: a lint stage in which the linter passed and the format-checker
\* failed: the type-checker was not invoked and the stage returned False.
C14_Witness ==
    \E i \in 1..Len(calls) :
        /\ calls[i].fn = "run_linting"
        /\ Len(calls[i].cmds) = 2
        /\ calls[i].cmds[1].returncode = Ok
        /\ calls[i].cmds[2].cmd = "ruff format --check"
        /\ calls[i].cmds[2].returncode = Fail
        /\ calls[i].ret = RetFalse
        /\ ErrorsOf(calls[i]) = {"Ruff format check failed"}

\* The number of files the call found in dist by the pattern, 0 when it did
\* not get to look.
Artifacts(call, pattern) ==
    IF Ran(call, pattern) = {} THEN 0
    ELSE call.cmds[CHOOSE k \in Ran(call, pattern) : TRUE].stdout

Succeeded(call, c) == \E k \in Ran(call, c) : call.cmds[k].returncode = Ok

\* C15: build_package returns True only if the install of the build
\* dependencies succeeded, the packager succeeded, and dist then holds at
\* least one *.whl and at least one *.tar.gz; it returns False if either kind
\* is missing; the packager is never invoked after a failed install.
C15_BuildVerifiesArtifacts ==
    \A i \in 1..Len(calls) :
        calls[i].fn = "build_package" =>
            LET c == calls[i]
                wheels == Artifacts(c, "glob *.whl")
                sdists == Artifacts(c, "glob *.tar.gz")
                verified == Ran(c, "glob *.whl") # {} /\ Ran(c, "glob *.tar.gz") # {}
            IN  /\ c.ret = RetTrue =>
                       /\ Succeeded(c, "pip install build")
                       /\ Succeeded(c, "python -m build")
                       /\ verified /\ wheels >= 1 /\ sdists >= 1
                /\ verified /\ (wheels = 0 \/ sdists = 0) => c.ret = RetFalse
                /\ verified <=> Succeeded(c, "python -m build")
                /\ Ran(c, "python -m build") # {} =>
                       /\ Succeeded(c, "pip install build")
                       /\ \A k \in Ran(c, "python -m build"),
                             j \in Ran(c, "pip install build") : j < k
                /\ \A k \in Ran(c, "python -m build"), j \in Ran(c, "glob *.whl")
                           \cup Ran(c, "glob *.tar.gz") : k < j

\* C15 witness: the install and the packager succeeded, dist holds wheels but
\* no source distribution, and build_package returned False.
C15_Witness ==
    \E i \in 1..Len(calls) :
        /\ calls[i].fn = "build_package"
        /\ Succeeded(calls[i], "pip install build")
        /\ Succeeded(calls[i], "python -m build")
        /\ Artifacts(calls[i], "glob *.whl") = 2
        /\ Artifacts(calls[i], "glob *.tar.gz") = 0
        /\ calls[i].ret = RetFalse

\* The release-readiness notice has been printed.
ReleaseNoticePrinted ==
    \E k \in 1..Len(out) : out[k].msg = "Release mode: Package is ready for release"

\* Every stage invoked so far returned True.
InvokedStagesSucceeded == \A i \in 1..Len(calls) : calls[i].ret = RetTrue

\* C13: --release implies all checks: in a run of `all` with --release the
\* version check, the lint stage and the test stage have each been invoked
\* when the release-readiness notice is printed, whatever --no-lint and
\* --no-test say, and the notice is printed only after every stage succeeded.
C13_ReleaseImpliesAllChecks ==
    ReleaseNoticePrinted =>
        /\ InPipeline /\ args.release
        /\ Invoked("check_version") /\ Invoked("run_linting") /\ Invoked("run_tests")
        /\ InvokedStagesSucceeded

\* What holds of the notice: it is printed only in a run of `all` with
\* --release, after the version check and every stage that is not skipped
\* were invoked and returned True; --no-lint and --no-test skip lint and test
\* under --release as without it.
ReleaseNoticeAfterUnskippedStages ==
    ReleaseNoticePrinted =>
        /\ InPipeline /\ args.release
        /\ InvokedStagesSucceeded
        /\ \A fn \in Stages : Invoked(fn) <=> ~SkipParameter(fn)
        /\ Invoked("run_linting") <=> ~args.no_lint
        /\ Invoked("run_tests") <=> ~args.no_test

(***************************************************************************)
(* Properties of create_release_tag.                                       *)
(***************************************************************************)
\* s[i..j] is a non-empty run of characters of Class.
IsRun(s, i, j, Class) == i <= j /\ \A k \in i..j : s[k] \in Class

\* The form of a version: an optional v, three non-empty groups of digits
\* separated by dots, and optionally a - followed by alphanumerics.
WellFormedVersion(s) ==
    \E b \in {0, 1}, p1, p2, e \in 1..Len(s) :
        /\ b = 1 => s[1] = "v"
        /\ p1 < p2 /\ p2 < e
        /\ s[p1] = "." /\ s[p2] = "."
        /\ IsRun(s, b + 1, p1 - 1, Digit)
        /\ IsRun(s, p1 + 1, p2 - 1, Digit)
        /\ IsRun(s, p2 + 1, e, Digit)
        /\ \/ e = Len(s)
           \/ e < Len(s) /\ s[e + 1] = "-" /\ IsRun(s, e + 2, Len(s), Alnum)

\* The version with a single leading v.
WithLeadingV(s) == IF s # <<>> /\ s[1] = "v" THEN s ELSE <<"v">> \o s

\* The call got past the validation of the version.
Accepted(call) ==
    \A k \in 1..Len(call.logs) : call.logs[k].msg # "Invalid version format"

\* C10: create_release_tag accepts a version exactly when it is well formed
\* (it rejects the empty string), and every tag name it looks up, creates or
\* pushes is the version with a single leading v.
C10_AcceptsExactlyWellFormed ==
    /\ ~re_match_version(<<>>)
    /\ \A i \in 1..Len(calls) :
           calls[i].fn = "create_release_tag" =>
               LET v == TheValue(args.version)
               IN  /\ Accepted(calls[i]) <=> WellFormedVersion(v)
                   /\ ~Accepted(calls[i]) =>
                          calls[i].ret = RetFalse /\ calls[i].cmds = <<>>
                   /\ \A k \in 1..Len(calls[i].cmds) :
                          calls[i].cmds[k].arg = WithLeadingV(v)

\* The listing of the call succeeded and holds the tag.
TagListed(call, tag) ==
    \E k \in Ran(call, "git tag -l") :
        call.cmds[k].returncode = Ok /\ tag \in call.cmds[k].stdout

\* The call created the tag.
TagCreated(call) ==
    \E k \in Ran(call, "git tag -a") : call.cmds[k].returncode = Ok

\* The user answered the prompt of the call with y or yes (the code compares
\* the answer stripped of surrounding whitespace and in lower case).
AnsweredYes(call) ==
    \E k \in Ran(call, "input") :
        /\ call.cmds[k].returncode = Ok
        /\ Lower(Strip(call.cmds[k].stdout)) \in {<<"y">>, <<"y", "e", "s">>}

\* A call on a version that is `bad` or whose tag is listed returns False
\* having neither created a tag, nor prompted, nor pushed; the tag is created
\* only after both checks passed; the push only after the tag was created in
\* the call and the user answered yes; the operations come in the order
\* list, create, prompt, push, each at most once.
ChecksBeforeSideEffects(call, v, bad) ==
    LET tag == WithLeadingV(v)
        sideEffects == Ran(call, "git tag -a") \cup Ran(call, "input")
                           \cup Ran(call, "git push origin")
    IN  /\ (bad \/ TagListed(call, tag)) =>
               call.ret = RetFalse /\ sideEffects = {}
        /\ Ran(call, "git tag -a") # {} =>
               /\ ~bad
               /\ \E k \in Ran(call, "git tag -l") :
                      call.cmds[k].returncode = Ok /\ tag \notin call.cmds[k].stdout
        /\ Ran(call, "input") # {} => TagCreated(call)
        /\ Ran(call, "git push origin") # {} =>
               TagCreated(call) /\ AnsweredYes(call)
        /\ \A k \in 1..Len(call.cmds) :
               call.cmds[k].cmd =
                   <<"git tag -l", "git tag -a", "input", "git push origin">>[k]

\* C11: create_release_tag detects validation errors before any side effect:
\* on a malformed version, or when the normalized tag already exists, it
\* returns false without creating a tag, prompting or pushing; a tag is created
\* only after both checks passed, and the push happens only after the tag was
\* created in that call and the user answered y or yes.
C11_ValidationBeforeSideEffects ==
    \A i \in 1..Len(calls) :
        calls[i].fn = "create_release_tag" =>
            LET v == TheValue(args.version)
            IN  ChecksBeforeSideEffects(calls[i], v, ~WellFormedVersion(v))

\* The same with "malformed" read as "rejected by the pattern of line 275":
\* the ordering of the checks and the side effects is as C11 says for every
\* version the pattern rejects.
RejectedBeforeSideEffects ==
    \A i \in 1..Len(calls) :
        calls[i].fn = "create_release_tag" =>
            LET v == TheValue(args.version)
            IN  ChecksBeforeSideEffects(calls[i], v, ~re_match_version(v))

(***************************************************************************)
(* Properties of process_data.                                             *)
(***************************************************************************)
\* A call has ended and no other has been made since.
CallEnded == frame = None /\ outcome # None

LastCall == TheValue(outcome).call
LastResult == TheValue(outcome).result

\* C7: process_data with an empty data sequence raises ValueError("Input
\* data cannot be empty"), whatever config and debug are.
C7_EmptyDataRaises ==
    (CallEnded /\ LastCall.data = <<>>) =>
        /\ LastResult.kind = "raise"
        /\ LastResult.exc = "ValueError"
        /\ LastResult.text = "Input data cannot be empty"

\* C7 witness: a call with empty data, a config and debug set has raised.
C7_Witness ==
    /\ CallEnded /\ LastCall.data = <<>>
    /\ LastCall.config # None /\ LastCall.debug
    /\ LastResult.kind = "raise"

\* C8: process_data with a non-empty data sequence returns the empty
\* mapping, whatever the items, config and debug are.
C8_NonEmptyDataReturnsEmptyDict ==
    (CallEnded /\ LastCall.data # <<>>) =>
        /\ LastResult.kind = "return"
        /\ LastResult.dict = EmptyDict

\* C8 witness: a call with two items of different types, a config and debug
\* set has returned.
C8_Witness ==
    /\ CallEnded /\ Len(LastCall.data) = 2
    /\ LastCall.data[1] # LastCall.data[2]
    /\ LastCall.config # None /\ LastCall.debug
    /\ LastResult.kind = "return"

\* C9 as claimed: the logger is at DEBUG while a call with debug set runs,
\* and back at its level of before the call once the call has ended.
C9_VerbosityRestored ==
    /\ (frame # None /\ TheValue(frame).debug) => loggerLevel = DEBUG
    /\ CallEnded => loggerLevel = LastCall.levelBefore

\* C9 amended: the logger is at DEBUG while a call with debug set runs and
\* stays there once the call has ended, whether it returned or raised: the
\* level is never restored.  A call with debug unset leaves the level as it
\* found it, so after one call with debug every later call runs at DEBUG.
C9_VerbosityRaisedAndKept ==
    /\ frame # None =>
           loggerLevel = IF TheValue(frame).debug THEN DEBUG
                         ELSE TheValue(frame).levelBefore
    /\ CallEnded =>
           loggerLevel = IF LastCall.debug THEN DEBUG ELSE LastCall.levelBefore

\* C9 witness: a call with debug unset that was entered at DEBUG, the level an
\* earlier call with debug left behind, has ended at DEBUG.
C9_Witness ==
    /\ CallEnded /\ ~LastCall.debug
    /\ LastCall.levelBefore = DEBUG /\ loggerLevel = DEBUG

(***************************************************************************)
(* Properties of twat-text's main.                                         *)
(***************************************************************************)
HasEquals(c) == \E i \in 1..Len(c) : c[i] = "="

\* name and value are c split on its first "=", surrounding blanks dropped.
SplitOnFirstEquals(c, name, value) ==
    \E i \in 1..Len(c) :
        /\ c[i] = "=" /\ \A j \in 1..(i - 1) : c[j] # "="
        /\ name = Strip(SubSeq(c, 1, i - 1))
        /\ value = Strip(SubSeq(c, i + 1, Len(c)))

\* process_data was invoked by main (and has ended).
ProcessDataInvoked == outcome # None

\* What main does once the parser accepted the command line, `malformed`
\* telling whether the --config argument counts as one without "=".
MainContract(malformed) ==
    LET a == sysArgv
        code == TheValue(returned)
    IN  /\ mainPc = "returned" =>
               /\ code \in {0, 1}
               /\ code = 0 <=> ProcessDataInvoked /\ LastResult.kind = "return"
               /\ malformed => code = 1 /\ ~ProcessDataInvoked
               /\ a.config # None /\ HasEquals(TheValue(a.config)) =>
                      /\ ProcessDataInvoked
                      /\ LET c == TheValue(LastCall.config)
                         IN  /\ SplitOnFirstEquals(TheValue(a.config), c.name, c.value)
                             /\ c.options = None
               /\ a.config = None =>
                      ProcessDataInvoked /\ LastCall.config = Some(DefaultConfig)
               /\ ProcessDataInvoked =>
                      LastCall.data = IF a.data = <<>> THEN DefaultData ELSE a.data
        /\ ProcessDataInvoked /\ LastResult.kind = "raise" =>
               mainPc \in {"mapping", "returned"}
        /\ mainPc = "exited" => a.extra # "" /\ ~ProcessDataInvoked

\* C12: main returns 0 on success and 1 on an error: a --config argument
\* without "=" makes it return 1 without invoking process_data; one with "="
\* is split on the first "=" only into name and value; an absent config falls
\* back to the default config and absent data to the default data; every
\* exception raised by process_data is mapped to 1, never propagated.
C12_MainReturnsZeroOrOne ==
    MainContract(sysArgv.config # None /\ ~HasEquals(TheValue(sysArgv.config)))

\* The same for every --config argument but the empty string, which main
\* takes for an absent one: it then runs process_data with the default config.
MainContractOfNonEmptyConfig ==
    /\ MainContract(/\ sysArgv.config # None
                    /\ TheValue(sysArgv.config) # <<>>
                    /\ ~HasEquals(TheValue(sysArgv.config)))
    /\ mainPc = "returned" /\ sysArgv.config = Some(<<>>) =>
           ProcessDataInvoked /\ LastCall.config = Some(DefaultConfig)
====
